---- MODULE Spec2Model ----
(***************************************************************************)
(* EventHint: the event lifecycle (events API), the calendar sync job and  *)
(* the message-processing job, modelled as a state machine over the        *)
(* database tables, the job queue and the calendar provider.               *)
(*                                                                         *)
(* The API handlers are `async def` bodies without an await: each runs to  *)
(* completion as one transaction and is one action.  The Celery jobs run   *)
(* on workers, concurrently with everything else, and are split at their   *)
(* suspension points (the first query, the provider call, the commit).     *)
(***************************************************************************)
EXTENDS Integers, Sequences, FiniteSets, TLC

\* ---------------------------------------------------------------- bounds
MaxMessages == 1
MaxEvents == 1
MaxRedeliveries == 1
MaxDrafts == 2
MaxRequests == 1
MaxSetDefaults == 2
MaxLines == 2
MaxStoredEvents == 2

\* ------------------------------------------------------- optional values
\* Python's None and a present value; every nullable column holds one of these.
None == <<>>
Some(x) == <<x>>
IsSet(v) == v # None

\* datetime.utcnow(): only its being set is observed.
utcnow == Some("utcnow")

\* ------------------------------------------------------------ enumerations
PENDING_APPROVAL == "pending_approval"
APPROVED == "approved"
REJECTED == "rejected"
SYNCED == "synced"
ERROR == "error"
EventStatus == {PENDING_APPROVAL, APPROVED, REJECTED, SYNCED, ERROR}

Users == {"u1", "u2"}
\* The user whose requests are followed; "u2" owns the other calendar.
CurrentUsers == {"u1"}
Workers == {"w1"}
\* The worker pool; the second worker runs where two runs of a job overlap.
Pool == {"w1", "w2"}
CalendarIds == {"c1", "c2"}
EventIds == 1..MaxEvents
MessageIds == 1..MaxMessages

\* ------------------------------------------------------------- ISO strings
\* An ISO-8601 string is kept as what datetime.fromisoformat makes of it: a
\* well-formed one gives a datetime, a malformed one does not parse.
\* Times count minutes; the string shows a wall-clock time and a UTC offset.
Iso(wall, offset) == <<"iso", wall, offset>>
isoformat(t) == Iso(t, 0)
Malformed == <<"text", 0, 0>>
Parses(s) == s[1] = "iso"
\* The instant of the string.
fromisoformat(s) == s[2] - s[3]

\* ------------------------------------------------------------------ state
VARIABLES
    users,        \* users table: user id -> [auto_approve_enabled]
    calendars,    \* calendars table: calendar id -> [user_id, is_default, is_active]
    messages,     \* messages table: a sequence, the id is the index
    events,       \* events table: event id -> row, for the rows that exist
    eventCount,   \* event ids handed out so far (ids are never reused)
    queue,        \* the job queue: jobs enqueued and not yet taken by a worker
    jobs,         \* per worker: the job it runs, its position and its session
    gcal,         \* the provider's calendars: the external events that exist
    createCalls,  \* per event id: provider create calls performed for it
    enqueued,     \* every job ever enqueued (what the queue can deliver again)
    redeliveries, \* jobs the queue has delivered again so far
    failedRuns,   \* message ids whose processing job has raised to the queue
    log,          \* the warnings and notices the jobs have logged
    requests,     \* API requests in flight: begun, their transaction not yet ended
    stage         \* a pipeline stage under evaluation: its input and its output

vars == <<users, calendars, messages, events, eventCount, queue, jobs, gcal,
          createCalls, enqueued, redeliveries, failedRuns, log, requests, stage>>

\* ------------------------------------------------------------- rows, jobs
Idle == [kind |-> "idle", pc |-> "idle", id |-> 0, calendar_id |-> None,
         calendar |-> None, external_id |-> None]

ProcessJob(message_id) ==
    [kind |-> "process", pc |-> "queued", id |-> message_id, calendar_id |-> None,
     calendar |-> None, external_id |-> None]

SyncJob(event_id, calendar_id) ==
    [kind |-> "sync", pc |-> "queued", id |-> event_id, calendar_id |-> calendar_id,
     calendar |-> None, external_id |-> None]

\* A new row of the events table with the column defaults of the model class.
NewEvent(user_id, message_id, type, title, start, end, confidence, status, approved_at) ==
    [user_id |-> user_id, message_id |-> message_id, type |-> type, title |-> title,
     start |-> start, end |-> end, confidence |-> confidence, status |-> status,
     calendar_id |-> None, external_event_id |-> None, synced_at |-> None,
     approved_at |-> approved_at, rejected_at |-> None]

\* A new row of the messages table.
NewMessage(user_id, provider) ==
    [user_id |-> user_id, provider |-> provider, processed |-> FALSE,
     processed_at |-> None, processing_error |-> None]

Exists(e) == e \in DOMAIN events
EventsOf(m) == {e \in DOMAIN events : events[e].message_id = Some(m)}

\* db.add(event); the insert of one row under a fresh id.
Insert(tbl, n, row) == [e \in DOMAIN tbl \cup {n + 1} |-> IF e = n + 1 THEN row ELSE tbl[e]]
\* db.delete(event)
Delete(tbl, e) == [x \in DOMAIN tbl \ {e} |-> tbl[x]]

\* The UPDATE a job's commit issues for a row it loaded earlier; a row deleted
\* in the meantime is not brought back.
UpdateRow(tbl, e, row) == IF e \in DOMAIN tbl THEN [tbl EXCEPT ![e] = row] ELSE tbl

\* Calendar rows with the column defaults of the model class, owned as given.
Calendars(owner) ==
    [c \in CalendarIds |-> [user_id |-> owner[c], is_default |-> FALSE, is_active |-> TRUE]]

\* Everything but the users and the calendars, before any request.
EmptyTables ==
    /\ messages = <<>>
    /\ events = <<>>
    /\ eventCount = 0
    /\ queue = {}
    /\ jobs = [w \in Pool |-> Idle]
    /\ gcal = {}
    /\ createCalls = [e \in EventIds |-> 0]
    /\ enqueued = {}
    /\ redeliveries = 0
    /\ failedRuns = {}
    /\ log = {}
    /\ requests = {}

\* The calendars as they are before any request: one per user, no default yet.
OwnCalendars == Calendars([c \in CalendarIds |-> IF c = "c1" THEN "u1" ELSE "u2"])

\* The tables as they are before any request: no message, no event, the two
\* calendars, no stage under evaluation.
InitTables ==
    /\ calendars = OwnCalendars
    /\ EmptyTables
    /\ stage = <<>>

UsersWith(auto) ==
    [u \in Users |-> [auto_approve_enabled |-> (u \in CurrentUsers /\ auto)]]

Init ==
    /\ users = UsersWith(TRUE)
    /\ InitTables

\* task.delay(...): the job is in the queue from here on.
Enqueue(job) ==
    /\ queue' = queue \cup {job}
    /\ enqueued' = enqueued \cup {job}

\* ------------------------------------------------------------ API handlers
\* POST /api/ingestion/upload: the message row is committed, then the
\* processing job is enqueued.
upload_file(current_user) ==
    /\ Len(messages) < MaxMessages
    /\ messages' = Append(messages, NewMessage(current_user, "upload"))
    /\ Enqueue(ProcessJob(Len(messages) + 1))
    /\ UNCHANGED <<users, calendars, events, eventCount, jobs, gcal, createCalls,
                   redeliveries, failedRuns, log,
                   requests, stage>>

\* URL submission: a message row with provider "website" whose body is the URL.
submit_url(current_user) ==
    /\ Len(messages) < MaxMessages
    /\ messages' = Append(messages, NewMessage(current_user, "website"))
    /\ Enqueue(ProcessJob(Len(messages) + 1))
    /\ UNCHANGED <<users, calendars, events, eventCount, jobs, gcal, createCalls,
                   redeliveries, failedRuns, log,
                   requests, stage>>

\* EventBase.validate_end_after_start, the validator of EventCreate.
validate_end_after_start(start, end) == ~(IsSet(end) /\ end[1] < start)

\* POST /api/events/: status takes the column default.
create_event(current_user, title, start, end, confidence) ==
    /\ eventCount < MaxEvents
    /\ validate_end_after_start(start, end)
    /\ events' = Insert(events, eventCount,
                        NewEvent(current_user, None, "event", title, start, end,
                                 confidence, PENDING_APPROVAL, None))
    /\ eventCount' = eventCount + 1
    /\ UNCHANGED <<users, calendars, messages, queue, jobs, gcal, createCalls,
                   redeliveries, failedRuns, enqueued, log,
                   requests, stage>>

\* The bodies an EventUpdate can carry (model_dump(exclude_unset=True)): a
\* record of the fields that were sent.
Patches == {[end |-> None]}

\* for field, value in update_data.items(): setattr(event, field, value)
ApplyPatch(row, update_data) ==
    [f \in DOMAIN row |-> IF f \in DOMAIN update_data THEN update_data[f] ELSE row[f]]

\* The row a handler finds: Event.id == event_id and Event.user_id == current_user.
Found(current_user, event_id) ==
    Exists(event_id) /\ events[event_id].user_id = current_user

\* PATCH /api/events/{id}
update_event(current_user, event_id, update_data) ==
    /\ Found(current_user, event_id)
    /\ events' = [events EXCEPT ![event_id] = ApplyPatch(@, update_data)]
    /\ UNCHANGED <<users, calendars, messages, eventCount, queue, jobs, gcal,
                   createCalls, redeliveries, failedRuns, enqueued, log,
                   requests, stage>>

\* Variant: an approve request is also taken as the retry of a failed sync.
ApproveGuardAlsoError(row) == row.status \in {PENDING_APPROVAL, ERROR}

\* The status an approve request must find (else 400).
ApproveGuard(row) == row.status = PENDING_APPROVAL

\* Variant: the approval forgets the audit timestamp.
ApproveWriteNoStamp(row) == [row EXCEPT !.status = APPROVED]

\* What approve_event writes after the modifications.
ApproveWrite(row) == [row EXCEPT !.status = APPROVED, !.approved_at = utcnow]

\* POST /api/events/{id}/approve: modifications, status, commit, then the
\* sync job is enqueued.  approval_data is [modifications, calendar_id].
approve_event(current_user, event_id, modifications, calendar_id) ==
    /\ Found(current_user, event_id)
    /\ ApproveGuard(events[event_id])
    /\ events' = [events EXCEPT ![event_id] = ApproveWrite(ApplyPatch(@, modifications))]
    /\ Enqueue(SyncJob(event_id, calendar_id))
    /\ UNCHANGED <<users, calendars, messages, eventCount, jobs, gcal, createCalls,
                   redeliveries, failedRuns, log,
                   requests, stage>>

\* ---- approve_event step by step, as other processes see it
\* An API request in flight.
Request(op, current_user, event_id, calendar_id, modifications, todo, locked) ==
    [op |-> op, user |-> current_user, event_id |-> event_id, calendar_id |-> calendar_id,
     modifications |-> modifications, todo |-> todo, locked |-> locked]

\* Variant: the sync job is triggered before the commit.
ApproveProgramEnqueueFirst == <<"enqueue", "commit">>

\* What approve_event does, in order, once the event has passed its checks:
\* db.commit(), then sync_event_to_calendar.delay(...).
ApproveProgram == <<"commit", "enqueue">>

\* The 400 response of approve_event.
NotPending(event_id) == <<"400 event is not pending approval", event_id>>

\* approve_event up to its writes in the session: the lookup (404), the status
\* check (400), the modifications and the status set on the loaded row.
approve_lookup(current_user, event_id, modifications, calendar_id) ==
    /\ Found(current_user, event_id)
    /\ Cardinality(requests) < MaxRequests
    /\ IF ~ApproveGuard(events[event_id])
       THEN /\ log' = log \cup {NotPending(event_id)}
            /\ requests' = requests
       ELSE /\ log' = log
            /\ requests' = requests \cup
                   {Request("approve", current_user, event_id, calendar_id, modifications,
                            ApproveProgram, {})}
    /\ UNCHANGED <<users, calendars, messages, events, eventCount, queue, jobs, gcal,
                   createCalls, enqueued, redeliveries, failedRuns, stage>>

\* The next step of an approve request: the commit of the row's changes (an
\* UPDATE of the columns the handler set), or the enqueueing of the sync job.
approve_step(r) ==
    /\ r \in requests
    /\ r.op = "approve"
    /\ requests' = IF Len(r.todo) = 1 THEN requests \ {r}
                   ELSE (requests \ {r}) \cup {[r EXCEPT !.todo = Tail(r.todo)]}
    /\ IF Head(r.todo) = "commit"
       THEN /\ events' = IF Exists(r.event_id)
                         THEN UpdateRow(events, r.event_id,
                                        ApproveWrite(ApplyPatch(events[r.event_id],
                                                                r.modifications)))
                         ELSE events
            /\ UNCHANGED <<queue, enqueued>>
       ELSE /\ Enqueue(SyncJob(r.event_id, r.calendar_id))
            /\ events' = events
    /\ UNCHANGED <<users, calendars, messages, eventCount, jobs, gcal, createCalls,
                   redeliveries, failedRuns, log, stage>>

\* What reject_event writes; the handler checks no status.
RejectWrite(row) == [row EXCEPT !.status = REJECTED, !.rejected_at = utcnow]

\* POST /api/events/{id}/reject
reject_event(current_user, event_id) ==
    /\ Found(current_user, event_id)
    /\ events' = [events EXCEPT ![event_id] = RejectWrite(@)]
    /\ UNCHANGED <<users, calendars, messages, eventCount, queue, jobs, gcal,
                   createCalls, redeliveries, failedRuns, enqueued, log,
                   requests, stage>>

\* DELETE /api/events/{id}: the local row only.
delete_event(current_user, event_id) ==
    /\ Found(current_user, event_id)
    /\ events' = Delete(events, event_id)
    /\ UNCHANGED <<users, calendars, messages, eventCount, queue, jobs, gcal,
                   createCalls, redeliveries, failedRuns, enqueued, log,
                   requests, stage>>

\* POST /api/calendars/{id}/set-default: unset all of the user's defaults,
\* set the one asked for; a calendar that is not the user's is a 404 and the
\* transaction is dropped.
set_default_calendar(current_user, calendar_id) ==
    /\ calendars[calendar_id].user_id = current_user
    /\ calendars' = [c \in CalendarIds |->
                       IF calendars[c].user_id = current_user
                       THEN [calendars[c] EXCEPT !.is_default = (c = calendar_id)]
                       ELSE calendars[c]]
    /\ UNCHANGED <<users, messages, events, eventCount, queue, jobs, gcal, createCalls,
                   redeliveries, failedRuns, enqueued, log,
                   requests, stage>>

\* ---- set_default_calendar as concurrent transactions
\* Variant: the UPDATE is narrowed to the rows that are default now.
UnsetWritesDefaultsOnly(tbl, current_user) ==
    {c \in DOMAIN tbl : tbl[c].user_id = current_user /\ tbl[c].is_default}

\* The rows the "unset all defaults" UPDATE writes, and locks until the
\* transaction ends: every calendar of the user.
UnsetWrites(tbl, current_user) == {c \in DOMAIN tbl : tbl[c].user_id = current_user}

\* The rows other transactions in flight hold locked.
LockedByOthers(r) == UNION {x.locked : x \in requests \ {r}}

\* A set-default request arrives and its transaction begins.
set_default_begin(current_user, calendar_id) ==
    /\ Cardinality(requests) < MaxSetDefaults
    /\ requests' = requests \cup
           {Request("set_default", current_user, 0, Some(calendar_id), <<>>,
                    <<"unset", "set">>, {})}
    /\ UNCHANGED <<users, calendars, messages, events, eventCount, queue, jobs, gcal,
                   createCalls, enqueued, redeliveries, failedRuns, log, stage>>

\* The UPDATE that unsets the defaults: it waits while another transaction
\* holds one of its rows, then sees the rows as last committed.
set_default_unset(r) ==
    /\ r \in requests
    /\ r.op = "set_default"
    /\ Head(r.todo) = "unset"
    /\ UnsetWrites(calendars, r.user) \cap LockedByOthers(r) = {}
    /\ requests' = (requests \ {r}) \cup
           {[r EXCEPT !.todo = Tail(r.todo), !.locked = UnsetWrites(calendars, r.user)]}
    /\ UNCHANGED <<users, calendars, messages, events, eventCount, queue, jobs, gcal,
                   createCalls, enqueued, redeliveries, failedRuns, log, stage>>

\* The lookup of the calendar, then either the 404 (the transaction is rolled
\* back) or is_default = True and the commit.
set_default_commit(r) ==
    /\ r \in requests
    /\ r.op = "set_default"
    /\ Head(r.todo) = "set"
    /\ r.calendar_id[1] \notin LockedByOthers(r)
    /\ requests' = requests \ {r}
    /\ calendars' = IF calendars[r.calendar_id[1]].user_id # r.user
                    THEN calendars
                    ELSE [c \in CalendarIds |->
                            IF c = r.calendar_id[1]
                            THEN [calendars[c] EXCEPT !.is_default = TRUE]
                            ELSE IF c \in r.locked
                            THEN [calendars[c] EXCEPT !.is_default = FALSE]
                            ELSE calendars[c]]
    /\ UNCHANGED <<users, messages, events, eventCount, queue, jobs, gcal, createCalls,
                   enqueued, redeliveries, failedRuns, log, stage>>

\* ------------------------------------------------------- calendar sync job
Running(w, kind, pc) == jobs[w].kind = kind /\ jobs[w].pc = pc

\* The queue delivers a job again (at-least-once); capped to keep the model finite.
CanRedeliver == redeliveries < MaxRedeliveries

\* Variant: the job also takes events in ERROR.
SyncGuardAlsoError(row) == row.status \in {APPROVED, ERROR}

\* The status a sync job must find (else it logs and returns).
SyncGuard(row) == row.status = APPROVED

\* The calendars the job's calendar query can return (.first() of the result).
ResolveCalendar(row, calendar_id) ==
    IF IsSet(calendar_id)
    THEN {c \in CalendarIds : c = calendar_id[1]}
    ELSE {c \in CalendarIds : /\ calendars[c].user_id = row.user_id
                              /\ calendars[c].is_default
                              /\ calendars[c].is_active}

\* sync_event_to_calendar up to the provider call: the event and status
\* checks, the calendar, and the ERROR commit when there is none.
SyncLoad(w) ==
    /\ jobs[w] = Idle
    /\ \E j \in queue :
        /\ j.kind = "sync"
        /\ queue' = queue \ {j}
        /\ IF ~Exists(j.id)
           THEN /\ jobs' = jobs
                /\ events' = events
                /\ log' = log \cup {<<"event not found", j.id>>}
           ELSE IF ~SyncGuard(events[j.id])
           THEN /\ jobs' = jobs
                /\ events' = events
                /\ log' = log \cup {<<"event is not approved", j.id>>}
           ELSE IF ResolveCalendar(events[j.id], j.calendar_id) = {}
           THEN /\ jobs' = jobs
                /\ events' = [events EXCEPT ![j.id].status = ERROR]
                /\ log' = log \cup {<<"no calendar found", j.id>>}
           ELSE \E c \in ResolveCalendar(events[j.id], j.calendar_id) :
                /\ jobs' = [jobs EXCEPT ![w] = [j EXCEPT !.pc = "create",
                                                         !.calendar = Some(c)]]
                /\ events' = events
                /\ log' = log
    /\ UNCHANGED <<users, calendars, messages, eventCount, gcal, createCalls,
                   redeliveries, failedRuns, enqueued,
                   requests, stage>>

\* The id the provider returns for a created event: fresh for every call.
NewExternalId(event_id) == <<event_id, createCalls[event_id] + 1>>

\* calendar_service.create_event returns: the external event exists from here on.
SyncCreate(w) ==
    /\ Running(w, "sync", "create")
    /\ gcal' = gcal \cup {[id |-> NewExternalId(jobs[w].id),
                           calendar |-> jobs[w].calendar[1]]}
    /\ createCalls' = [createCalls EXCEPT ![jobs[w].id] = @ + 1]
    /\ jobs' = [jobs EXCEPT ![w].pc = "commit",
                            ![w].external_id = Some(NewExternalId(jobs[w].id))]
    /\ UNCHANGED <<users, calendars, messages, events, eventCount, queue, redeliveries,
                   failedRuns, enqueued, log,
                   requests, stage>>

\* The except branch: event.status = ERROR, commit, raise.
ErrorWrite(row) == [row EXCEPT !.status = ERROR]

\* The except branch logs the error and re-raises it to the queue.
SyncRaised(event_id) == <<"error syncing event", event_id>>

\* calendar_service.create_event (or building the service) raises.
SyncCreateFails(w) ==
    /\ Running(w, "sync", "create")
    /\ events' = IF Exists(jobs[w].id)
                 THEN UpdateRow(events, jobs[w].id, ErrorWrite(events[jobs[w].id]))
                 ELSE events
    /\ jobs' = [jobs EXCEPT ![w] = Idle]
    /\ log' = log \cup {SyncRaised(jobs[w].id)}
    /\ UNCHANGED <<users, calendars, messages, eventCount, queue, gcal, createCalls,
                   redeliveries, failedRuns, enqueued,
                   requests, stage>>

\* Variant: the job forgets synced_at.
SyncedWriteNoStamp(row, calendar, external_id) ==
    [row EXCEPT !.status = SYNCED, !.calendar_id = calendar,
                !.external_event_id = external_id]

\* "Mark as synced": the four columns the job writes before its commit.
SyncedWrite(row, calendar, external_id) ==
    [row EXCEPT !.status = SYNCED, !.synced_at = utcnow,
                !.calendar_id = calendar, !.external_event_id = external_id]

\* db.commit() after the provider call.
SyncCommit(w) ==
    /\ Running(w, "sync", "commit")
    /\ events' = IF Exists(jobs[w].id)
                 THEN UpdateRow(events, jobs[w].id,
                                SyncedWrite(events[jobs[w].id], jobs[w].calendar,
                                            jobs[w].external_id))
                 ELSE events
    /\ jobs' = [jobs EXCEPT ![w] = Idle]
    /\ UNCHANGED <<users, calendars, messages, eventCount, queue, gcal, createCalls,
                   redeliveries, failedRuns, enqueued, log,
                   requests, stage>>

\* A job abandoned mid-execution (its worker is lost): the session is dropped
\* with whatever it had not committed.
Abandon(w) ==
    /\ jobs[w] # Idle
    /\ jobs' = [jobs EXCEPT ![w] = Idle]
    /\ UNCHANGED <<users, calendars, messages, events, eventCount, queue, gcal,
                   createCalls, enqueued, redeliveries, failedRuns, log,
                   requests, stage>>

\* At-least-once delivery: the queue hands out again a job it was given
\* (a retry after a failure or an abandoned run, or a duplicate).
Redeliver(job) ==
    /\ job \in enqueued
    /\ job \notin queue
    /\ CanRedeliver
    /\ queue' = queue \cup {job}
    /\ redeliveries' = redeliveries + 1
    /\ UNCHANGED <<users, calendars, messages, events, eventCount, jobs, gcal,
                   createCalls, enqueued, failedRuns, log,
                   requests, stage>>

\* The warning the undo job logs when the provider's delete raises.
DeleteFailed(event_id) == <<"failed to delete from calendar", event_id>>

\* Variant: the undo job deletes the local row and leaves the provider alone.
CallsProviderNever(row) == FALSE

\* The undo job calls calendar_service.delete_event: the event has an
\* external_event_id and its calendar row is found.
CallsProvider(row) == IsSet(row.external_event_id) /\ IsSet(row.calendar_id)

\* undo_calendar_event: the external delete when external_event_id is set and
\* its calendar is found (a failure of it is logged), then the local delete.
undo_calendar_event(event_id, delete_ok) ==
    /\ Exists(event_id)
    /\ gcal' = IF CallsProvider(events[event_id]) /\ delete_ok
               THEN {x \in gcal : x.id # events[event_id].external_event_id[1]}
               ELSE gcal
    /\ log' = IF CallsProvider(events[event_id]) /\ ~delete_ok
              THEN log \cup {DeleteFailed(event_id)}
              ELSE log
    /\ events' = Delete(events, event_id)
    /\ UNCHANGED <<users, calendars, messages, eventCount, queue, jobs, createCalls,
                   redeliveries, failedRuns, enqueued,
                   requests, stage>>

\* ------------------------------------------------------ confidence scoring
\* Confidence is counted in thousandths (0.30 is 300), so that the sums and
\* the product with ocr_confidence are exact.

\* dict.get(key, default) on a context dictionary.
Get(d, key, default) == IF key \in DOMAIN d THEN d[key] ELSE default

Min(a, b) == IF a < b THEN a ELSE b

\* calculate_event_confidence(event_data, context)
calculate_event_confidence(event_data, context) ==
    LET c1 == IF IsSet(event_data.start)
              THEN 300 + (IF IsSet(event_data.end) THEN 50 ELSE 0)
              ELSE 0
        c2 == IF Len(event_data.title) > 3 THEN 200 ELSE 0
        c3 == IF IsSet(event_data.location) THEN 100 ELSE 0
        method == Get(context, "extraction_method", "")
        c4 == IF method = "deterministic" THEN 200
              ELSE IF method = "llm" THEN 150
              ELSE IF method = "hybrid" THEN 250
              ELSE 0
        c5 == IF Get(context, "trusted_sender", FALSE) THEN 50 ELSE 0
        sum == c1 + c2 + c3 + c4 + c5
        ocr_confidence == Get(context, "ocr_confidence", 1000)
        scaled == IF ocr_confidence < 1000 THEN (sum * ocr_confidence) \div 1000 ELSE sum
    IN Min(scaled, 1000)

\* Variant: the high-confidence threshold is 0.6.
AutoApproveThresholdLow(confidence, trusted_sender) ==
    \/ confidence >= 600
    \/ trusted_sender /\ confidence >= 700

\* The two thresholds of should_auto_approve.
AutoApproveThreshold(confidence, trusted_sender) ==
    \/ confidence >= 900
    \/ trusted_sender /\ confidence >= 700

\* should_auto_approve(event_data, user, context): the confidence it tests is
\* the one it computes from event_data and context itself.
should_auto_approve(event_data, user, context) ==
    /\ user.auto_approve_enabled
    /\ AutoApproveThreshold(calculate_event_confidence(event_data, context),
                            Get(context, "trusted_sender", FALSE))

\* ------------------------------------------------ deduplication and merging
\* set(title.lower().split()) on the titles of the model.
Words(title) ==
    CASE title = "Exam" -> {"exam"}
      [] title = "Math exam" -> {"math", "exam"}
      [] title = "Physics exam" -> {"physics", "exam"}
      [] title = " E" -> {"e"}
      [] OTHER -> {}

\* _titles_similar with its default threshold 0.5: the word overlap is at
\* least half of the word union.
titles_similar(title1, title2) ==
    LET words1 == Words(title1)
        words2 == Words(title2)
    IN /\ words1 # {}
       /\ words2 # {}
       /\ 2 * Cardinality(words1 \cap words2) >= Cardinality(words1 \cup words2)

\* Keys of a draft that hold a string, and keys the merge passes over
\* (key.startswith("_")).
StringKeys == {"title", "type"}
PrivateKeys == {"_source"}

\* not base.get(key): the empty string, the empty list, None.
Falsy(key, value) ==
    IF key \in StringKeys THEN value = ""
    ELSE IF key = "labels" THEN value = {}
    ELSE value = <<>>

\* base_reminders[reminder["minutes"]] = reminder on a dictionary kept as the
\* list of its values: the reminder takes the place of the one with its
\* minutes, or is added at the end.
PutReminder(base_reminders, reminder) ==
    IF \E i \in DOMAIN base_reminders : base_reminders[i].minutes = reminder.minutes
    THEN [i \in DOMAIN base_reminders |->
            IF base_reminders[i].minutes = reminder.minutes THEN reminder
            ELSE base_reminders[i]]
    ELSE Append(base_reminders, reminder)

RECURSIVE PutReminders(_, _)
PutReminders(base_reminders, reminders) ==
    IF reminders = <<>> THEN base_reminders
    ELSE PutReminders(PutReminder(base_reminders, Head(reminders)), Tail(reminders))

\* One key of one later event merged into the base: a missing or empty base
\* value is filled, labels are united, reminders are gathered by minutes (the
\* base's first, then the event's), notes (their lines) are appended, any
\* other value of the base stays.
MergeField(key, base, event) ==
    IF key \notin DOMAIN event THEN base[key]
    ELSE IF key \notin DOMAIN base \/ Falsy(key, base[key]) THEN event[key]
    ELSE IF key = "labels" THEN base[key] \cup event[key]
    ELSE IF key = "reminders"
    THEN PutReminders(PutReminders(<<>>, base[key]), event[key])
    ELSE IF key = "notes" /\ event[key] # <<>> THEN base[key] \o event[key]
    ELSE base[key]

\* The inner loop of _merge_event_group over the items of one later event.
MergeInto(base, event) ==
    [key \in DOMAIN base \cup (DOMAIN event \ PrivateKeys) |->
        IF key \in PrivateKeys THEN base[key] ELSE MergeField(key, base, event)]

RECURSIVE MergeAll(_, _)
MergeAll(base, rest) ==
    IF rest = <<>> THEN base ELSE MergeAll(MergeInto(base, Head(rest)), Tail(rest))

IsDeterministic(event) == event._source = "deterministic"
IsNotDeterministic(event) == ~IsDeterministic(event)

\* _merge_event_group: the stable sort that puts deterministic drafts first,
\* the first draft as base, the others merged into it in order.
merge_event_group(group) ==
    LET sorted == SelectSeq(group, IsDeterministic) \o SelectSeq(group, IsNotDeterministic)
    IN MergeAll(Head(sorted), Tail(sorted))

\* _merge_similar_events: each draft not yet taken gathers the later drafts
\* not yet taken whose title is similar to its own, and the group is merged.
RECURSIVE merge_similar_events(_)
merge_similar_events(group) ==
    IF group = <<>> THEN <<>>
    ELSE LET event1 == Head(group)
             Similar(event2) == titles_similar(event1.title, event2.title)
             Other(event2) == ~Similar(event2)
             similar == <<event1>> \o SelectSeq(Tail(group), Similar)
         IN <<merge_event_group(similar)>>
                \o merge_similar_events(SelectSeq(Tail(group), Other))

\* The grouping key: the start as parsed, its minute rounded down to a
\* quarter, written back as a string with the offset it came with.
RoundedStart(event) ==
    LET start == event.start[1]
    IN Iso((start[2] \div 15) * 15, start[3])

HasStart(event) == IsSet(event.start)

\* The keys of time_groups in the order the dictionary received them.
RECURSIVE GroupKeys(_)
GroupKeys(started) ==
    IF started = <<>> THEN <<>>
    ELSE LET k == RoundedStart(Head(started))
             Later(event) == RoundedStart(event) # k
         IN <<k>> \o GroupKeys(SelectSeq(Tail(started), Later))

\* _deduplicate_by_similarity: drafts without a start are dropped, the others
\* are grouped by rounded start and each group is merged by title.
deduplicate_by_similarity(all_events) ==
    LET started == SelectSeq(all_events, HasStart)
        keys == GroupKeys(started)
        Group(k) == LET InGroup(event) == RoundedStart(event) = k
                    IN SelectSeq(started, InGroup)
        RECURSIVE Extend(_)
        Extend(i) == IF i > Len(keys) THEN <<>>
                     ELSE merge_similar_events(Group(keys[i])) \o Extend(i + 1)
    IN Extend(1)

\* The tagging loops of merge_and_validate_events: event["_source"] = source.
Tag(drafts, source) ==
    [i \in DOMAIN drafts |->
        [key \in DOMAIN drafts[i] \cup {"_source"} |->
            IF key = "_source" THEN source ELSE drafts[i][key]]]

\* -------------------------------------------------------------- OCR router
\* settings.OCR_CONFIDENCE_THRESHOLD, in thousandths like every confidence.
OCR_CONFIDENCE_THRESHOLD == 750

\* An OCRResult, by the adapter that made it and its confidence.
OCRResult(provider, confidence) == [provider |-> provider, confidence |-> confidence]
\* An adapter's extract raises: the exception it logs and raises again is
\* whatever its library raised, kept here by the adapter it came from.
ExtractFails(provider) == [raised |-> TRUE, value |-> OCRResult(provider, 0)]

\* Variant: a confidence equal to the threshold is not good enough.
GoodEnoughAbove(result) == result.confidence > OCR_CONFIDENCE_THRESHOLD

\* result.confidence >= settings.OCR_CONFIDENCE_THRESHOLD
GoodEnough(result) == result.confidence >= OCR_CONFIDENCE_THRESHOLD

\* What a run of the router gives: its outcome and how often it has invoked
\* each adapter.
Routed(outcome, local_calls, premium_calls) ==
    [outcome |-> outcome, local_calls |-> local_calls, premium_calls |-> premium_calls]

\* extract_text_smart. tesseract and vision are what TesseractOCR().extract and
\* GoogleVisionOCR().extract give on the image (a result or an exception).
extract_text_smart(prefer_free, tesseract, vision, ENABLE_GOOGLE_VISION, GOOGLE_CLOUD_VISION_API_KEY) ==
    LET first == IF prefer_free THEN 1 ELSE 0
    IN IF prefer_free /\ ~tesseract.raised /\ GoodEnough(tesseract.value)
       THEN Routed(tesseract, 1, 0)
       ELSE IF ENABLE_GOOGLE_VISION /\ GOOGLE_CLOUD_VISION_API_KEY
       THEN IF ~vision.raised THEN Routed(vision, first, 1)
            ELSE IF prefer_free THEN Routed(tesseract, 2, 1)
            ELSE Routed(vision, 0, 1)
       ELSE Routed(tesseract, first + 1, 0)

\* -------------------------------------------------------------- extractors
\* What a call gives its caller: a value, or an exception that propagates.
Return(value) == [raised |-> FALSE, value |-> value]
Raise == [raised |-> TRUE, value |-> <<>>]

\* datetime(y, m, d) and datetime.replace(hour, minute) raise ValueError
\* outside these ranges; the year of the model is 2025.
DaysInMonth(m) == IF m = 2 THEN 28 ELSE IF m \in {4, 6, 9, 11} THEN 30 ELSE 31
ValidDate(date) == date.m \in 1..12 /\ date.d \in 1..DaysInMonth(date.m)
ValidTime(time) == time.h \in 0..23 /\ time.m \in 0..59

\* A text is the date header its first DATE_HEADER_PATTERN match shows (or
\* none), its non-empty lines (each with the time its first time pattern
\* match shows, or none, and whether it names the user), whether it holds a
\* Hungarian marker word besides those of the times, and what the English
\* patterns and the generic date parser find in it.
Line(time, matches_user) == [time |-> time, matches_user |-> matches_user]

\* The exam appointment of one line; instants count the minutes from the
\* start of the header's month, the default duration is 30 minutes.
ExamEvent(date, time) ==
    LET start == ((date.d - 1) * 24 + time.h) * 60 + time.m
    IN [title |-> "Exam appointment", start |-> Some(isoformat(start)),
        end |-> Some(isoformat(start + 30)), type |-> "event", location |-> None,
        notes |-> <<"Imported from schedule.">>]

\* The loop of extract_hungarian_exam_schedule over the lines.
RECURSIVE ExamLines(_, _, _)
ExamLines(date, lines, found) ==
    IF lines = <<>> THEN Return(found)
    ELSE LET line == Head(lines)
         IN IF ~line.matches_user \/ line.time = None
            THEN ExamLines(date, Tail(lines), found)
            ELSE IF ~ValidTime(line.time[1]) THEN Raise
            ELSE ExamLines(date, Tail(lines),
                           Append(found, ExamEvent(date, line.time[1])))

\* extract_hungarian_exam_schedule (extract_hungarian_patterns returns what it
\* returns): no try around datetime(...) or replace(...).
extract_hungarian_exam_schedule(text) ==
    IF text.header = None THEN Return(<<>>)
    ELSE IF ~ValidDate(text.header[1]) THEN Raise
    ELSE ExamLines(text.header[1], text.lines, <<>>)

\* _is_likely_hungarian: "óra" and "perc" of a time are marker words.
is_likely_hungarian(text) ==
    \/ text.marker
    \/ \E i \in DOMAIN text.lines :
          text.lines[i].time # None /\ text.lines[i].time[1].form = "ora"

\* _deduplicate_events: the first event of each signature (start and title).
RECURSIVE deduplicate_events(_)
deduplicate_events(found) ==
    IF found = <<>> THEN <<>>
    ELSE LET first == Head(found)
             Differs(event) == event.start # first.start \/ event.title # first.title
         IN <<first>> \o deduplicate_events(SelectSeq(Tail(found), Differs))

\* extract_events_deterministic: Hungarian patterns when the text looks
\* Hungarian, English patterns, the generic fallback when nothing was found,
\* deduplication. An exception of a callee is not caught.
extract_events_deterministic(text) ==
    LET hungarian == IF is_likely_hungarian(text)
                     THEN extract_hungarian_exam_schedule(text)
                     ELSE Return(<<>>)
        patterns == hungarian.value \o text.english
        found == IF patterns = <<>> THEN text.generic ELSE patterns
    IN IF hungarian.raised THEN Raise ELSE Return(deduplicate_events(found))

\* The event the LLM loop returns for one item of the reply: notes absent
\* become "", "\n[Extracted by AI]" is appended.
Annotated(item) ==
    [title |-> item.title, start |-> item.start, end |-> None, type |-> "event",
     location |-> None,
     notes |-> (IF item.notes = "text" THEN <<"see page 2">> ELSE <<"">>)
                   \o <<"[Extracted by AI]">>]

\* The body of the try block of extract_events_llm: the API call, json.loads,
\* result.get("events", []), the loop over the events. notes: null makes
\* event["notes"] += ... raise TypeError.
LlmTry(reply) ==
    IF reply.kind \in {"api_error", "not_json", "not_object"} THEN Raise
    ELSE IF reply.kind = "no_events_key" THEN Return(<<>>)
    ELSE IF \E i \in DOMAIN reply.events : reply.events[i].notes = "null" THEN Raise
    ELSE Return([i \in DOMAIN reply.events |-> Annotated(reply.events[i])])

\* extract_events_llm: the two settings, then the try block with its
\* except Exception: return [].
extract_events_llm(OPENAI_API_KEY, ENABLE_LLM_FALLBACK, reply) ==
    IF ~OPENAI_API_KEY THEN Return(<<>>)
    ELSE IF ~ENABLE_LLM_FALLBACK THEN Return(<<>>)
    ELSE IF LlmTry(reply).raised THEN Return(<<>>)
    ELSE LlmTry(reply)

\* ---------------------------------------------------- message processing job
\* str.strip() on the titles of the model.
strip(title) == IF title = " E" THEN "E" ELSE title

\* _validate_event: a title of two characters or more after trimming and a
\* start that parses.
validate_event(event) ==
    /\ Len(strip(event.title)) >= 2
    /\ IsSet(event.start)
    /\ Parses(event.start[1])

\* The type _validate_event leaves on the event.
NormalType(type) == IF type \in {"event", "task"} THEN type ELSE "event"

\* merge_and_validate_events after deduplication: the events that validate,
\* in order, each with its confidence and without its _source tag.
RECURSIVE ValidateAndScore(_, _)
ValidateAndScore(unique_events, context) ==
    IF unique_events = <<>> THEN <<>>
    ELSE LET event == Head(unique_events)
             event_context == [k \in DOMAIN context \cup {"extraction_method"} |->
                                 IF k = "extraction_method" THEN event._source
                                 ELSE context[k]]
             scored == [title |-> event.title, start |-> event.start,
                        end |-> event.end, type |-> NormalType(event.type),
                        location |-> event.location,
                        confidence |-> calculate_event_confidence(event, event_context)]
         IN IF validate_event(event)
            THEN <<scored>> \o ValidateAndScore(Tail(unique_events), context)
            ELSE ValidateAndScore(Tail(unique_events), context)

\* datetime.fromisoformat(start) in _deduplicate_by_similarity, outside any
\* try block: a start that is present and does not parse raises ValueError.
DeduplicateRaises(all_events) ==
    \E i \in DOMAIN all_events :
        HasStart(all_events[i]) /\ ~Parses(all_events[i].start[1])

\* merge_and_validate_events: tag the drafts of both extractors, deduplicate,
\* then validate and score; an exception of the deduplication leaves the call.
merge_and_validate_events(deterministic_events, llm_events, context) ==
    LET all_events == Tag(deterministic_events, "deterministic") \o Tag(llm_events, "llm")
    IN IF DeduplicateRaises(all_events) THEN Raise
       ELSE Return(ValidateAndScore(deduplicate_by_similarity(all_events), context))

\* The extraction_method the persist loop stores with a merged event.
extraction_method(event_data) == Get(event_data, "_source", "hybrid")

\* Event(...) in the persist loop raises when end is present and does not parse
\* (start was checked by the validator).
ConstructRaises(event_data) == IsSet(event_data.end) /\ ~Parses(event_data.end[1])

\* The row the persist loop builds from one merged event.
PersistRow(message_id, message, user, event_data) ==
    LET auto == should_auto_approve(event_data, user,
                                    [confidence |-> event_data.confidence])
    IN NewEvent(message.user_id, Some(message_id), event_data.type, event_data.title,
                fromisoformat(event_data.start[1]),
                IF IsSet(event_data.end) THEN Some(fromisoformat(event_data.end[1]))
                ELSE None,
                event_data.confidence,
                IF auto THEN APPROVED ELSE PENDING_APPROVAL,
                IF auto THEN utcnow ELSE None)

\* How many merged events the loop adds to the session before it stops: all of
\* them, or those before the first whose construction raises.
RECURSIVE AddedBeforeRaise(_)
AddedBeforeRaise(merged_events) ==
    IF merged_events = <<>> \/ ConstructRaises(Head(merged_events)) THEN 0
    ELSE 1 + AddedBeforeRaise(Tail(merged_events))

\* The session's pending rows flushed by a commit: the first n merged events.
RECURSIVE Flush(_, _, _, _, _, _)
Flush(tbl, count, message_id, message, user, added) ==
    IF added = <<>> THEN tbl
    ELSE Flush(Insert(tbl, count, PersistRow(message_id, message, user, Head(added))),
               count + 1, message_id, message, user, Tail(added))

\* Variant: the job does not look at the processed flag.
ProcessGuardOff(message) == TRUE

\* The "already processed" guard at the head of the job.
ProcessGuard(message) == ~message.processed

\* process_message_task up to extraction: the idempotence guard and, for a
\* website message, the scrape with its failure branch.
ProcessLoad(w, scrape_ok) ==
    /\ jobs[w] = Idle
    /\ \E j \in queue :
        /\ j.kind = "process"
        /\ queue' = queue \ {j}
        /\ log' = IF ~ProcessGuard(messages[j.id])
                  THEN log \cup {<<"message already processed", j.id>>}
                  ELSE log
        /\ IF ~ProcessGuard(messages[j.id])
           THEN /\ jobs' = jobs
                /\ messages' = messages
           ELSE IF messages[j.id].provider = "website" /\ ~scrape_ok
           THEN /\ jobs' = jobs
                /\ messages' = [messages EXCEPT ![j.id].processing_error = Some("Scraping failed"),
                                                ![j.id].processed = TRUE,
                                                ![j.id].processed_at = utcnow]
           ELSE /\ jobs' = [jobs EXCEPT ![w] = [j EXCEPT !.pc = "extract"]]
                /\ messages' = messages
    /\ UNCHANGED <<users, calendars, events, eventCount, gcal, createCalls,
                   redeliveries, failedRuns, enqueued,
                   requests, stage>>

\* What the job's last commit writes on the message.
ProcessedWrite(message) == [message EXCEPT !.processed = TRUE, !.processed_at = utcnow]

\* What the except branch commits: every row the session holds by then.
FailureFlush(tbl, count, message_id, message, user, added) ==
    Flush(tbl, count, message_id, message, user, added)

\* process_message_task from extraction on: OCR, extraction and merge have
\* given the merged events; the persist loop; then either the final commit, or
\* the except branch (processing_error, commit, raise). The events table
\* holds at most capacity rows.
ProcessCommit(w, merged_events, capacity) ==
    /\ Running(w, "process", "extract")
    /\ LET m == jobs[w].id
           message == messages[m]
           user == users[message.user_id]
           n == AddedBeforeRaise(merged_events)
           added == SubSeq(merged_events, 1, n)
           raised == n < Len(merged_events)
       IN /\ eventCount + n <= capacity
          /\ events' = IF raised
                       THEN FailureFlush(events, eventCount, m, message, user, added)
                       ELSE Flush(events, eventCount, m, message, user, added)
          /\ eventCount' = eventCount + n
          /\ messages' = IF raised
                         THEN [messages EXCEPT ![m].processing_error = Some("error")]
                         ELSE [messages EXCEPT ![m] = ProcessedWrite(@)]
          /\ failedRuns' = IF raised THEN failedRuns \cup {m} ELSE failedRuns
    /\ jobs' = [jobs EXCEPT ![w] = Idle]
    /\ UNCHANGED <<users, calendars, queue, gcal, createCalls, enqueued, redeliveries,
                   log,
                   requests, stage>>

\* The job over an events table of at most MaxEvents rows.
ProcessFinish(w, merged_events) == ProcessCommit(w, merged_events, MaxEvents)

\* ------------------------------------------------------------------ inputs
\* Deduplicated drafts as the extractors hand them over.
Draft(title, end, type, location, source) ==
    [title |-> title, start |-> Some(isoformat(100)), end |-> end, type |-> type,
     location |-> location, _source |-> source]

\* A complete draft of the deterministic extractor.
FullDraft == Draft("Exam", Some(isoformat(130)), "task", Some("Room A"), "deterministic")
\* An LLM draft whose end is no ISO string.
BadEndDraft == Draft("Exam", Some(Malformed), "event", None, "llm")
\* A draft the validator rejects: one character once trimmed.
BlankDraft == Draft(" E", None, "event", None, "llm")

DraftPool == {FullDraft, BadEndDraft, BlankDraft}

\* An LLM draft whose end parses and lies before its start.
EarlyEndDraft == Draft("Exam", Some(isoformat(90)), "event", None, "llm")
\* The end values of an EventCreate body: absent, before and after the start.
CreateEnds == {None, Some(90), Some(130)}
\* EventUpdate bodies that move one bound of the event and leave the other.
EditPatches == {[end |-> Some(90)], [end |-> Some(130)], [start |-> 140]}

\* The draft lists of at most MaxDrafts drafts.
DraftLists == UNION {[1..n -> DraftPool] : n \in 0..MaxDrafts}
OcrConfidences == {500, 1000}

\* What merge_and_validate_events returns to the job: the drafts of a message
\* validated and scored under the lowest OCR confidence of its attachments.
Merge(unique_events, ocr_confidence) ==
    ValidateAndScore(unique_events, [ocr_confidence |-> ocr_confidence])

MergedLists == {Merge(d, o) : d \in DraftLists, o \in OcrConfidences}

\* The merged lists whose events all persist and differ from each other in
\* title, start or type, as deduplication leaves them.
CleanMergedLists ==
    {merged \in MergedLists :
        /\ AddedBeforeRaise(merged) = Len(merged)
        /\ \A i \in DOMAIN merged, j \in DOMAIN merged :
              i # j => <<merged[i].title, merged[i].start, merged[i].type>>
                          # <<merged[j].title, merged[j].start, merged[j].type>>}

\* A draft as an extractor returns it, before the merger tags it; location
\* is absent or given, notes are lines of text.
Untagged(title, start, location, notes) ==
    [title |-> title, start |-> Some(isoformat(start)), end |-> None, type |-> "event",
     location |-> location, notes |-> notes]

\* The draft "Exam" at instant 100, written with the offset +01:00.
OffsetDraft == [Untagged("Exam", 100, None, <<>>) EXCEPT !.start = Some(Iso(160, 60))]

\* Drafts of one quarter of an hour with titles similar in pairs but not all
\* three, one draft of a later quarter, and one of the first quarter that is
\* written with another offset.
MergePool ==
    {Untagged("Exam", 100, Some("Room A"), <<>>),
     Untagged("Math exam", 100, None, <<"bring id">>),
     Untagged("Physics exam", 104, Some("Room B"), <<"hall 2">>),
     Untagged("Exam", 130, None, <<>>),
     OffsetDraft}

\* The lists of at most MaxDrafts untagged drafts.
MergeLists == UNION {[1..n -> MergePool] : n \in 0..MaxDrafts}
Sources == {"deterministic", "llm"}

\* A draft whose start is text that is no date.
MalformedStartDraft ==
    [Untagged("Quiz", 100, None, <<>>) EXCEPT !.start = Some(Malformed)]

\* The drafts an extractor hands to the merger, and its lists of them.
ExtractedPool ==
    {Untagged("Exam", 100, Some("Room A"), <<>>),
     Untagged("Math exam", 100, None, <<"bring id">>),
     Untagged("Exam", 130, None, <<>>),
     MalformedStartDraft}
ExtractedLists == UNION {[1..n -> ExtractedPool] : n \in 0..MaxDrafts}

\* A reminder and a draft with labels and reminders.
Reminder(method, minutes) == [method |-> method, minutes |-> minutes]
Labelled(draft, labels, reminders) ==
    [key \in DOMAIN draft \cup {"labels", "reminders"} |->
        IF key = "labels" THEN labels
        ELSE IF key = "reminders" THEN reminders
        ELSE draft[key]]

\* Drafts of one quarter of an hour and of similar titles, as the deterministic
\* and the LLM extractor give them: with and without location, notes, labels
\* and reminders, two of them with a reminder of 30 minutes.
GroupPool ==
    {Labelled(Untagged("Exam", 100, Some("Room A"), <<"bring id">>), {"exam"},
              <<Reminder("popup", 30)>>),
     Labelled(Untagged("Math exam", 104, Some("Room B"), <<"hall 2">>), {"school"},
              <<Reminder("email", 30), Reminder("popup", 120)>>),
     Labelled(Untagged("Exam", 100, None, <<>>), {}, <<>>),
     Labelled(Untagged("Exam", 101, None, <<"oral">>), {"exam", "oral"},
              <<Reminder("popup", 1440)>>)}

TaggedPool == {Tag(<<d>>, source)[1] : d \in GroupPool, source \in Sources}

\* The groups of similar drafts _merge_similar_events hands to the merge.
Groups == UNION {[1..n -> TaggedPool] : n \in 1..MaxDrafts}

\* Date headers the pattern \d{4}\.\d{2}\.\d{2}\. matches: a date, a month 13,
\* a 31st of November; or no header.
Headers == {None, Some([m |-> 11, d |-> 4]), Some([m |-> 13, d |-> 4]),
            Some([m |-> 11, d |-> 31])}
\* Times the patterns "h óra m perc" and "h:mm" match, in and out of range.
Times == {None, Some([form |-> "ora", h |-> 8, m |-> 50]),
          Some([form |-> "ora", h |-> 24, m |-> 50]),
          Some([form |-> "colon", h |-> 8, m |-> 60]),
          Some([form |-> "colon", h |-> 9, m |-> 20])}
TextLines == UNION {[1..n -> {Line(t, u) : t \in Times, u \in BOOLEAN}] : n \in 0..MaxLines}
\* What the English patterns and the generic parser find: nothing or one event.
MeetingEvent ==
    [title |-> "Team meeting", start |-> Some(isoformat(600)), end |-> Some(isoformat(660)),
     type |-> "event", location |-> None, notes |-> <<>>]
Finds == {<<>>, <<MeetingEvent>>}
Texts ==
    {[header |-> h, lines |-> l, marker |-> k, english |-> e, generic |-> g] :
        h \in Headers, l \in TextLines, k \in BOOLEAN, e \in Finds, g \in Finds}
NoText == [header |-> None, lines |-> <<>>, marker |-> FALSE, english |-> <<>>,
           generic |-> <<>>]

\* Replies of the chat completion: the call fails, the content is no JSON, it
\* is JSON but no object, it is an object without "events", or it carries
\* events whose notes are absent, null or a string.
ReplyItem(notes) == [title |-> "Exam", start |-> Some(isoformat(100)), notes |-> notes]
Reply(kind, items) == [kind |-> kind, events |-> items]
Replies ==
    {Reply(k, <<>>) : k \in {"api_error", "not_json", "not_object", "no_events_key"}}
        \cup {Reply("events", <<ReplyItem(n)>>) : n \in {"absent", "null", "text"}}
        \cup {Reply("events", <<ReplyItem("text"), ReplyItem("null")>>)}
NoReply == Reply("no_events_key", <<>>)

\* What the two adapters give on an image: an exception, or a result with a
\* confidence below, at or above the threshold.
TesseractOutcomes ==
    {ExtractFails("tesseract")} \cup {Return(OCRResult("tesseract", c)) : c \in {500, 749, 750, 900}}
VisionOutcomes ==
    {ExtractFails("google_vision")} \cup {Return(OCRResult("google_vision", c)) : c \in {600, 950}}
ApproveCalendars == {None, Some("c2")}

\* ------------------------------------------------------------ specification
\* The event lifecycle: every operation that writes an event row after the
\* pipeline has persisted it (one complete draft per message), with the sync
\* job abandoned and delivered again by the queue.
Next ==
    \/ \E u \in CurrentUsers : upload_file(u)
    \/ \E w \in Workers : ProcessLoad(w, TRUE)
    \/ \E w \in Workers : ProcessFinish(w, Merge(<<FullDraft>>, 1000))
    \/ \E u \in Users, e \in EventIds, p \in Patches : update_event(u, e, p)
    \/ \E u \in Users, e \in EventIds, p \in Patches \cup {<<>>}, c \in ApproveCalendars :
          approve_event(u, e, p, c)
    \/ \E u \in Users, e \in EventIds : reject_event(u, e)
    \/ \E u \in Users, e \in EventIds : delete_event(u, e)
    \/ \E u \in CurrentUsers, c \in CalendarIds : set_default_calendar(u, c)
    \/ \E w \in Workers : SyncLoad(w)
    \/ \E w \in Workers : SyncCreate(w)
    \/ \E w \in Workers : SyncCreateFails(w)
    \/ \E w \in Workers : SyncCommit(w)
    \/ \E w \in Workers : jobs[w].kind = "sync" /\ Abandon(w)
    \/ \E j \in enqueued : j.kind = "sync" /\ Redeliver(j)
    \/ \E e \in EventIds, ok \in BOOLEAN : undo_calendar_event(e, ok)

Spec == Init /\ [][Next]_vars

\* The message pipeline alone: uploads and URL submissions, the processing
\* job over every list of drafts, its failures and its redeliveries.
PipelineInit ==
    /\ \E auto \in BOOLEAN : users = UsersWith(auto)
    /\ InitTables

PipelineNext ==
    \/ \E u \in CurrentUsers : upload_file(u)
    \/ \E u \in CurrentUsers : submit_url(u)
    \/ \E w \in Workers, ok \in BOOLEAN : ProcessLoad(w, ok)
    \/ \E w \in Workers, merged \in MergedLists : ProcessFinish(w, merged)
    \/ \E w \in Workers : Abandon(w)
    \/ \E j \in enqueued : Redeliver(j)

PipelineSpec == PipelineInit /\ [][PipelineNext]_vars

\* The approval path step by step: one persisted event, approve requests
\* whose commit and enqueue other processes can see apart, reject requests and
\* the sync job.
ApprovalNext ==
    \/ \E u \in CurrentUsers : upload_file(u)
    \/ \E w \in Workers : ProcessLoad(w, TRUE)
    \/ \E w \in Workers : ProcessFinish(w, Merge(<<FullDraft>>, 1000))
    \/ \E u \in Users, e \in EventIds, p \in Patches, c \in ApproveCalendars :
          approve_lookup(u, e, p, c)
    \/ \E r \in requests : approve_step(r)
    \/ \E u \in Users, e \in EventIds : reject_event(u, e)
    \/ \E u \in CurrentUsers, c \in CalendarIds : set_default_calendar(u, c)
    \/ \E w \in Workers : SyncLoad(w)
    \/ \E w \in Workers : SyncCreate(w)
    \/ \E w \in Workers : SyncCreateFails(w)
    \/ \E w \in Workers : SyncCommit(w)

ApprovalSpec == Init /\ [][ApprovalNext]_vars

\* Overlapping runs of the sync job: a pool of two workers and a queue that
\* delivers a job again while its first run is still on a worker.
OverlapNext ==
    \/ \E u \in CurrentUsers : upload_file(u)
    \/ \E w \in Workers : ProcessLoad(w, TRUE)
    \/ \E w \in Workers : ProcessFinish(w, Merge(<<FullDraft>>, 1000))
    \/ \E u \in CurrentUsers, e \in EventIds, c \in ApproveCalendars :
          approve_event(u, e, <<>>, c)
    \/ \E u \in CurrentUsers, e \in EventIds : reject_event(u, e)
    \/ \E w \in Pool : SyncLoad(w)
    \/ \E w \in Pool : SyncCreate(w)
    \/ \E w \in Pool : SyncCreateFails(w)
    \/ \E w \in Pool : SyncCommit(w)
    \/ \E j \in enqueued : j.kind = "sync" /\ Redeliver(j)

OverlapSpec == Init /\ [][OverlapNext]_vars

\* The set-default requests of both users as concurrent transactions over
\* calendars owned in every way.
CalendarInit ==
    /\ users = UsersWith(TRUE)
    /\ \E owner \in [CalendarIds -> Users] : calendars = Calendars(owner)
    /\ EmptyTables
    /\ stage = <<>>

CalendarNext ==
    \/ \E u \in Users, c \in CalendarIds : set_default_begin(u, c)
    \/ \E r \in requests : set_default_unset(r)
    \/ \E r \in requests : set_default_commit(r)

CalendarSpec == CalendarInit /\ [][CalendarNext]_vars

\* Every way an event row gets its start and end: the pipeline over drafts
\* whose end lies after or before their start, POST with the EventCreate
\* validator, PATCH and approve with the bodies of an EventUpdate.
EditNext ==
    \/ \E u \in CurrentUsers : upload_file(u)
    \/ \E w \in Workers : ProcessLoad(w, TRUE)
    \/ \E w \in Workers, d \in {FullDraft, EarlyEndDraft} :
          ProcessFinish(w, Merge(<<d>>, 1000))
    \/ \E u \in CurrentUsers, end \in CreateEnds : create_event(u, "Exam", 100, end, 0)
    \/ \E u \in Users, e \in EventIds, p \in EditPatches : update_event(u, e, p)
    \/ \E u \in Users, e \in EventIds, p \in EditPatches \cup {<<>>},
          c \in ApproveCalendars : approve_event(u, e, p, c)
    \/ \E u \in Users, e \in EventIds : reject_event(u, e)
    \/ \E u \in Users, e \in EventIds : delete_event(u, e)

EditSpec == Init /\ [][EditNext]_vars

\* The merger over two draft lists of one source, presented in both orders.
MergeInit ==
    /\ users = UsersWith(TRUE)
    /\ calendars = OwnCalendars
    /\ EmptyTables
    /\ \E a \in MergeLists, b \in MergeLists, source \in Sources :
          stage = [a |-> Tag(a, source), b |-> Tag(b, source), ab |-> None, ba |-> None]

\* _deduplicate_by_similarity over the drafts of a followed by those of b.
merge_a_then_b ==
    /\ stage.ab = None
    /\ stage' = [stage EXCEPT !.ab = Some(deduplicate_by_similarity(stage.a \o stage.b))]
    /\ UNCHANGED <<users, calendars, messages, events, eventCount, queue, jobs, gcal,
                   createCalls, enqueued, redeliveries, failedRuns, log, requests>>

\* _deduplicate_by_similarity over the drafts of b followed by those of a.
merge_b_then_a ==
    /\ stage.ba = None
    /\ stage' = [stage EXCEPT !.ba = Some(deduplicate_by_similarity(stage.b \o stage.a))]
    /\ UNCHANGED <<users, calendars, messages, events, eventCount, queue, jobs, gcal,
                   createCalls, enqueued, redeliveries, failedRuns, log, requests>>

MergeNext == merge_a_then_b \/ merge_b_then_a

MergeSpec == MergeInit /\ [][MergeNext]_vars

\* The two extractors, each over its inputs: the deterministic one over the
\* texts, the LLM one over the settings and the replies of the API.
ExtractInit ==
    /\ users = UsersWith(TRUE)
    /\ calendars = OwnCalendars
    /\ EmptyTables
    /\ \/ \E text \in Texts :
             stage = [extractor |-> "deterministic", text |-> text, key |-> FALSE,
                      fallback |-> FALSE, reply |-> NoReply, out |-> None]
       \/ \E key \in BOOLEAN, fallback \in BOOLEAN, reply \in Replies :
             stage = [extractor |-> "llm", text |-> NoText, key |-> key,
                      fallback |-> fallback, reply |-> reply, out |-> None]

\* process_message calls extract_events_deterministic(full_text, ...).
call_extract_events_deterministic ==
    /\ stage.extractor = "deterministic"
    /\ stage.out = None
    /\ stage' = [stage EXCEPT !.out = Some(extract_events_deterministic(stage.text))]
    /\ UNCHANGED <<users, calendars, messages, events, eventCount, queue, jobs, gcal,
                   createCalls, enqueued, redeliveries, failedRuns, log, requests>>

\* process_message calls extract_events_llm(full_text, ...).
call_extract_events_llm ==
    /\ stage.extractor = "llm"
    /\ stage.out = None
    /\ stage' = [stage EXCEPT
                   !.out = Some(extract_events_llm(stage.key, stage.fallback, stage.reply))]
    /\ UNCHANGED <<users, calendars, messages, events, eventCount, queue, jobs, gcal,
                   createCalls, enqueued, redeliveries, failedRuns, log, requests>>

ExtractNext == call_extract_events_deterministic \/ call_extract_events_llm

ExtractSpec == ExtractInit /\ [][ExtractNext]_vars

\* The OCR router over every image (what each adapter makes of it), both
\* values of prefer_free and every setting of the premium adapter.
OcrInit ==
    /\ users = UsersWith(TRUE)
    /\ calendars = OwnCalendars
    /\ EmptyTables
    /\ \E prefer_free \in BOOLEAN, tesseract \in TesseractOutcomes,
          vision \in VisionOutcomes, enabled \in BOOLEAN, key \in BOOLEAN :
          stage = [prefer_free |-> prefer_free, tesseract |-> tesseract,
                   vision |-> vision, ENABLE_GOOGLE_VISION |-> enabled,
                   GOOGLE_CLOUD_VISION_API_KEY |-> key, out |-> None]

call_extract_text_smart ==
    /\ stage.out = None
    /\ stage' = [stage EXCEPT
                   !.out = Some(extract_text_smart(stage.prefer_free, stage.tesseract,
                                                   stage.vision, stage.ENABLE_GOOGLE_VISION,
                                                   stage.GOOGLE_CLOUD_VISION_API_KEY))]
    /\ UNCHANGED <<users, calendars, messages, events, eventCount, queue, jobs, gcal,
                   createCalls, enqueued, redeliveries, failedRuns, log, requests>>

OcrNext == call_extract_text_smart

OcrSpec == OcrInit /\ [][OcrNext]_vars

\* The undo job over events in every status a sync job leaves them in, the
\* sync job delivered again before or after it.
UndoNext ==
    \/ \E u \in CurrentUsers : upload_file(u)
    \/ \E w \in Workers : ProcessLoad(w, TRUE)
    \/ \E w \in Workers : ProcessFinish(w, Merge(<<FullDraft>>, 1000))
    \/ \E u \in CurrentUsers, e \in EventIds, c \in ApproveCalendars :
          approve_event(u, e, <<>>, c)
    \/ \E u \in CurrentUsers, e \in EventIds : reject_event(u, e)
    \/ \E u \in CurrentUsers, c \in CalendarIds : set_default_calendar(u, c)
    \/ \E w \in Workers : SyncLoad(w)
    \/ \E w \in Workers : SyncCreate(w)
    \/ \E w \in Workers : SyncCreateFails(w)
    \/ \E w \in Workers : SyncCommit(w)
    \/ \E j \in enqueued : j.kind = "sync" /\ Redeliver(j)
    \/ \E e \in EventIds, ok \in BOOLEAN : undo_calendar_event(e, ok)

UndoSpec == Init /\ [][UndoNext]_vars

\* The processing job of one message delivered twice and run by two workers
\* at once; every run persists without failure, and no run is given the same
\* event twice.
DuplicateNext ==
    \/ \E u \in CurrentUsers : upload_file(u)
    \/ \E u \in CurrentUsers : submit_url(u)
    \/ \E w \in Pool, ok \in BOOLEAN : ProcessLoad(w, ok)
    \/ \E w \in Pool, merged \in CleanMergedLists :
          ProcessCommit(w, merged, MaxStoredEvents)
    \/ \E w \in Pool : Abandon(w)
    \/ \E j \in enqueued : j.kind = "process" /\ Redeliver(j)

DuplicateSpec == PipelineInit /\ [][DuplicateNext]_vars

\* The merge of one group of similar drafts, over every group.
GroupInit ==
    /\ users = UsersWith(TRUE)
    /\ calendars = OwnCalendars
    /\ EmptyTables
    /\ \E group \in Groups : stage = [group |-> group, out |-> None]

call_merge_event_group ==
    /\ stage.out = None
    /\ stage' = [stage EXCEPT !.out = Some(merge_event_group(stage.group))]
    /\ UNCHANGED <<users, calendars, messages, events, eventCount, queue, jobs, gcal,
                   createCalls, enqueued, redeliveries, failedRuns, log, requests>>

GroupNext == call_merge_event_group

GroupSpec == GroupInit /\ [][GroupNext]_vars

\* The merger as the processing job calls it, over the drafts of the two
\* extractors and the OCR confidence of the attachments.
ScoreInit ==
    /\ users = UsersWith(TRUE)
    /\ calendars = OwnCalendars
    /\ EmptyTables
    /\ \E deterministic_events \in ExtractedLists, llm_events \in ExtractedLists,
          ocr_confidence \in OcrConfidences :
          stage = [deterministic_events |-> deterministic_events,
                   llm_events |-> llm_events,
                   context |-> [ocr_confidence |-> ocr_confidence],
                   out |-> None]

call_merge_and_validate_events ==
    /\ stage.out = None
    /\ stage' = [stage EXCEPT !.out =
                    Some(merge_and_validate_events(stage.deterministic_events,
                                                   stage.llm_events, stage.context))]
    /\ UNCHANGED <<users, calendars, messages, events, eventCount, queue, jobs, gcal,
                   createCalls, enqueued, redeliveries, failedRuns, log, requests>>

ScoreNext == call_merge_and_validate_events

ScoreSpec == ScoreInit /\ [][ScoreNext]_vars

\* Deleting events through the API while the sync job runs to its end: no
\* worker is lost and no job is delivered twice.
DeleteNext ==
    \/ \E u \in CurrentUsers : upload_file(u)
    \/ \E w \in Workers : ProcessLoad(w, TRUE)
    \/ \E w \in Workers : ProcessFinish(w, Merge(<<FullDraft>>, 1000))
    \/ \E u \in Users, e \in EventIds, p \in Patches : update_event(u, e, p)
    \/ \E u \in Users, e \in EventIds, p \in Patches \cup {<<>>}, c \in ApproveCalendars :
          approve_event(u, e, p, c)
    \/ \E u \in Users, e \in EventIds : reject_event(u, e)
    \/ \E u \in Users, e \in EventIds : delete_event(u, e)
    \/ \E u \in CurrentUsers, c \in CalendarIds : set_default_calendar(u, c)
    \/ \E w \in Workers : SyncLoad(w)
    \/ \E w \in Workers : SyncCreate(w)
    \/ \E w \in Workers : SyncCreateFails(w)
    \/ \E w \in Workers : SyncCommit(w)

DeleteSpec == Init /\ [][DeleteNext]_vars

\* ------------------------------------------------------------------ claims
\* C1: every stored event has a non-null external_event_id if and only if its
\* status is SYNCED.
C1_ExternalIdIffSynced ==
    \A e \in DOMAIN events : IsSet(events[e].external_event_id) <=> events[e].status = SYNCED

\* The edges of the lifecycle state machine.
LifecycleEdges ==
    {<<PENDING_APPROVAL, APPROVED>>, <<PENDING_APPROVAL, REJECTED>>, <<APPROVED, SYNCED>>,
     <<APPROVED, ERROR>>, <<ERROR, APPROVED>>}

\* C2: every change of an event's status made by any operation is an edge of
\* the lifecycle state machine.
C2_StatusChangesFollowMachine ==
    [][\A e \in DOMAIN events \cap DOMAIN events' :
          events[e].status # events'[e].status =>
              <<events[e].status, events'[e].status>> \in LifecycleEdges]_vars

\* C3: every event in APPROVED has a non-null approved_at.
C3_ApprovedHasApprovedAt ==
    \A e \in DOMAIN events : events[e].status = APPROVED => IsSet(events[e].approved_at)

\* An event stands approved, with its timestamp.
C3_Witness ==
    \E e \in DOMAIN events : events[e].status = APPROVED /\ IsSet(events[e].approved_at)

\* C4: every event in SYNCED has a non-null external_event_id and a non-null
\* synced_at.
C4_SyncedHasIdAndStamp ==
    \A e \in DOMAIN events :
        events[e].status = SYNCED =>
            IsSet(events[e].external_event_id) /\ IsSet(events[e].synced_at)

\* A sync job has committed an event as SYNCED.
C4_Witness ==
    \E e \in DOMAIN events : events[e].status = SYNCED /\ createCalls[e] > 0

\* C5: a processing job that starts on a message already processed changes no
\* event and no message and ends at once.
C5_RerunHasNoEffect ==
    [][\A j \in queue \ queue' :
          (j.kind = "process" /\ messages[j.id].processed) =>
              (events' = events /\ messages' = messages /\ jobs' = jobs)]_vars

\* A job was delivered again for a processed message and returned at the guard.
C5_Witness ==
    \E m \in DOMAIN messages :
        messages[m].processed /\ <<"message already processed", m>> \in log

\* C6: the provider's create operation is performed at most once per event,
\* whatever runs of the sync job are abandoned and delivered again.
C6_CreateAtMostOnce == \A e \in EventIds : createCalls[e] <= 1

\* C7: a sync job that starts on an event that is not APPROVED calls no
\* provider and leaves the event (status, external_event_id, synced_at,
\* calendar_id) as it is.
C7_SyncSkipsUnapproved ==
    [][\A j \in queue \ queue' :
          (j.kind = "sync" /\ Exists(j.id) /\ events[j.id].status # APPROVED) =>
              (events' = events /\ gcal' = gcal /\ createCalls' = createCalls /\ jobs' = jobs)]_vars

\* A sync job found its event not approved and returned.
C7_Witness ==
    \E e \in DOMAIN events :
        events[e].status # APPROVED /\ <<"event is not approved", e>> \in log

\* C8: once a processing job has raised, and while the message is still
\* unprocessed, no event row of that message is committed.
C8_FailedRunLeavesNoEvent ==
    \A m \in failedRuns : ~messages[m].processed => EventsOf(m) = {}

\* C9: every processed message has an event referencing it or a
\* processing_error.
C9_ProcessedHasEventsOrError ==
    \A m \in DOMAIN messages :
        messages[m].processed => (EventsOf(m) # {} \/ IsSet(messages[m].processing_error))

\* The auto-approval policy as the claim states it, on the stored confidence.
ClaimedPolicy(auto_approve_enabled, confidence, trusted_sender) ==
    auto_approve_enabled /\ (confidence >= 900 \/ (trusted_sender /\ confidence >= 700))

C12_SyncJobAfterApprovalCommit ==
    [][/\ \A j \in enqueued' \ enqueued :
             (j.kind = "sync" /\ Exists(j.id)) =>
                 /\ events[j.id].status # PENDING_APPROVAL
                 /\ IsSet(events[j.id].approved_at)
       /\ \A r \in requests \ requests' :
             (r.op = "approve" /\ Len(r.todo) = 1) =>
                 /\ queue' = queue \cup {SyncJob(r.event_id, r.calendar_id)}
                 /\ events' = events]_vars

\* An approve request has ended: its event is approved and its job enqueued.
C12_Witness ==
    \E j \in enqueued :
        /\ j.kind = "sync"
        /\ Exists(j.id)
        /\ events[j.id].status = APPROVED
        /\ requests = {}

\* C13: an approve request on an event that is not PENDING_APPROVAL is answered
\* 400 and changes no event, enqueues nothing and goes no further; only a
\* request that found its event PENDING_APPROVAL gets past the check.
C13_ApproveRefusedUnlessPending ==
    [][/\ \A e \in DOMAIN events :
             NotPending(e) \in log' \ log =>
                 /\ events[e].status # PENDING_APPROVAL
                 /\ events' = events
                 /\ queue' = queue
                 /\ enqueued' = enqueued
                 /\ requests' = requests
       /\ \A r \in requests' \ requests :
             (r.op = "approve" /\ r.todo = ApproveProgram) =>
                 events[r.event_id].status = PENDING_APPROVAL]_vars

\* An approve request was refused on an event that has since been synced.
C13_Witness ==
    \E e \in DOMAIN events :
        /\ NotPending(e) \in log
        /\ events[e].status = SYNCED
        /\ IsSet(events[e].approved_at)

\* C15: the manual retry of an event in ERROR, an approve request on it, is
\* not refused: it moves the event back to APPROVED.
C15_RetryOfErrorAccepted ==
    [][\A e \in DOMAIN events :
          events[e].status = ERROR => NotPending(e) \notin log' \ log]_vars

\* C14: when the provider's create call fails in a sync job, the job leaves
\* the event committed in ERROR with a null external_event_id and raises.
C14_CreateFailureLeavesError ==
    [][\A w \in Pool :
          (/\ Running(w, "sync", "create")
           /\ jobs'[w] = Idle
           /\ Exists(jobs[w].id)
           /\ (events' # events \/ log' # log)) =>
              /\ events'[jobs[w].id].status = ERROR
              /\ events'[jobs[w].id].external_event_id = None
              /\ SyncRaised(jobs[w].id) \in log']_vars

\* C16: every user has at most one calendar with is_default = true.
C16_AtMostOneDefault ==
    \A u \in Users :
        Cardinality({c \in CalendarIds : calendars[c].user_id = u /\ calendars[c].is_default}) <= 1

\* Two set-default transactions of one user for different calendars are in
\* flight together, one holding the rows and the other waiting at its UPDATE,
\* while one of the user's two calendars is the default.
C16_Witness ==
    \E r1 \in requests, r2 \in requests :
        /\ r1.user = r2.user
        /\ r1.calendar_id # r2.calendar_id
        /\ r1.locked = CalendarIds
        /\ Head(r2.todo) = "unset"
        /\ \E c \in CalendarIds : calendars[c].is_default

\* C17: in every reachable state every stored event has a null end or an end
\* that is not before its start, whichever of the pipeline, POST, PATCH and
\* approve-with-modifications wrote it.
C17_EndNotBeforeStart ==
    \A e \in DOMAIN events : IsSet(events[e].end) => events[e].end[1] >= events[e].start

\* The elements of a list.
Range(list) == {list[i] : i \in DOMAIN list}

\* C18: for two draft lists whose drafts all carry the same source tag, merging
\* the first followed by the second and merging the second followed by the
\* first give the same set of merged events, field by field.
C18_MergeCommutes ==
    (IsSet(stage.ab) /\ IsSet(stage.ba)) => Range(stage.ab[1]) = Range(stage.ba[1])

\* The internal failures of an extractor run: a matched date header or a
\* matched time of a line of the user that is out of range, a failed API call
\* or a malformed reply.
InternalFailure ==
    IF stage.extractor = "deterministic"
    THEN /\ is_likely_hungarian(stage.text)
         /\ stage.text.header # None
         /\ \/ ~ValidDate(stage.text.header[1])
            \/ \E i \in DOMAIN stage.text.lines :
                  LET line == stage.text.lines[i]
                  IN line.matches_user /\ line.time # None /\ ~ValidTime(line.time[1])
    ELSE stage.key /\ stage.fallback /\ LlmTry(stage.reply).raised

\* C19: neither extractor raises to the pipeline; on an internal failure it
\* returns the empty list.
C19_ExtractorsNeverRaise ==
    IsSet(stage.out) =>
        /\ ~stage.out[1].raised
        /\ InternalFailure => stage.out[1].value = <<>>

\* Premium OCR is enabled and credentialed.
PremiumOn == stage.ENABLE_GOOGLE_VISION /\ stage.GOOGLE_CLOUD_VISION_API_KEY

OCR_UNAVAILABLE == [raised |-> TRUE, value |-> OCRResult("OCR_UNAVAILABLE", 0)]

\* C21: with prefer_free, a failed local adapter and premium OCR available,
\* the premium adapter is invoked and its result returned; when it fails too
\* the router returns no result and raises an error of kind OCR_UNAVAILABLE.
C21_OcrFailureRouting ==
    (IsSet(stage.out) /\ stage.prefer_free /\ stage.tesseract.raised /\ PremiumOn) =>
        LET out == stage.out[1]
        IN /\ out.premium_calls = 1
           /\ ~stage.vision.raised => out.outcome = stage.vision
           /\ stage.vision.raised => out.outcome = OCR_UNAVAILABLE

\* C22: the undo job on an existing event ends with the local event deleted.
\* With external_event_id set it has called the provider's delete first (the
\* external event is gone, or the failure is logged) and a failure has not
\* kept the local row; with external_event_id null it has made no provider
\* call.
C22_UndoDeletesLocalEvent ==
    [][\A e \in DOMAIN events :
          LET row == events[e]
              gone == e \notin DOMAIN events'
          IN /\ (DeleteFailed(e) \in log' \ log) => gone
             /\ gone =>
                  IF IsSet(row.external_event_id)
                  THEN \/ /\ \A x \in gcal' : x.id # row.external_event_id[1]
                          /\ log' = log
                       \/ /\ gcal' = gcal
                          /\ log' = log \cup {DeleteFailed(e)}
                  ELSE gcal' = gcal /\ log' = log]_vars

\* The undo job has deleted a synced event although the provider's delete
\* failed: the failure is logged and the external event is still there.
C22_Witness ==
    \E e \in EventIds :
        /\ e \notin DOMAIN events
        /\ DeleteFailed(e) \in log
        /\ \E x \in gcal : x.id[1] = e

\* C23: an event whose REJECTED status is committed is never set to SYNCED
\* or ERROR afterwards, also when the reject request commits while a sync job
\* for the event is between its status check and its commit.
C23_RejectedStaysRejected ==
    [][\A e \in DOMAIN events \cap DOMAIN events' :
          events[e].status = REJECTED => events'[e].status \notin {SYNCED, ERROR}]_vars

\* C24: whatever the interleaving of two processing jobs of one message on
\* two workers, no event of the message is stored twice: two rows of one
\* message differ in title, start or type.
C24_NoEventOfAMessageTwice ==
    \A e1 \in DOMAIN events, e2 \in DOMAIN events :
        (e1 # e2 /\ events[e1].message_id = events[e2].message_id) =>
            <<events[e1].title, events[e1].start, events[e1].type>>
                # <<events[e2].title, events[e2].start, events[e2].type>>

\* The base draft of a group: its first deterministic draft when it has one,
\* else its first draft.
BaseOf(group) ==
    IF \E i \in DOMAIN group : group[i]._source = "deterministic"
    THEN group[CHOOSE i \in DOMAIN group :
                  /\ group[i]._source = "deterministic"
                  /\ \A j \in 1..(i - 1) : group[j]._source # "deterministic"]
    ELSE group[1]

\* C25: in the merge of a group every field that is non-empty in the base
\* draft keeps the base's value, but for labels, reminders and notes: the
\* labels are the union of the drafts' labels, the reminders hold one reminder
\* for each minutes value of any draft, the base's own where the base has one
\* of that minutes value, and the notes begin with the base's notes.
C25_BaseFieldsWin ==
    IsSet(stage.out) =>
        LET base == BaseOf(stage.group)
            out == stage.out[1]
        IN /\ \A key \in DOMAIN base \ ({"labels", "reminders", "notes"} \cup PrivateKeys) :
                  ~Falsy(key, base[key]) => out[key] = base[key]
           /\ out.labels = UNION {stage.group[i].labels : i \in DOMAIN stage.group}
           /\ {out.reminders[i].minutes : i \in DOMAIN out.reminders}
                 = UNION {{stage.group[i].reminders[j].minutes :
                              j \in DOMAIN stage.group[i].reminders} :
                          i \in DOMAIN stage.group}
           /\ \A i \in DOMAIN base.reminders :
                  \E j \in DOMAIN out.reminders : out.reminders[j] = base.reminders[i]
           /\ SubSeq(out.notes, 1, Len(base.notes)) = base.notes

\* The quarter of an hour an absolute instant lies in.
Quarter(event) == fromisoformat(event.start[1]) \div 15

\* C26: two drafts are merged into one event exactly when their starts, taken
\* as absolute instants, lie in the same quarter of an hour and their titles
\* are similar; the UTC offset a start is written with makes no difference.
C26_BucketsByInstant ==
    (IsSet(stage.ab) /\ Len(stage.a) = 1 /\ Len(stage.b) = 1) =>
        (Len(stage.ab[1]) = 1 <=>
            /\ Quarter(stage.a[1]) = Quarter(stage.b[1])
            /\ titles_similar(stage.a[1].title, stage.b[1].title))


\* The two drafts land in one group of the deduplication and come out as one.
MergedPair(event1, event2) ==
    /\ RoundedStart(event1) = RoundedStart(event2)
    /\ titles_similar(event1.title, event2.title)

\* C27: an event merged from a deterministic and an LLM draft is stored with
\* extraction method hybrid and scored with the hybrid bonus; an event from a
\* single deterministic or LLM draft is stored and scored as deterministic or
\* llm.
C27_MethodTagAndBonus ==
    (IsSet(stage.out) /\ ~stage.out[1].raised) =>
        LET det == stage.deterministic_events
            llm == stage.llm_events
            out == stage.out[1].value
            Scored(event, method) ==
                calculate_event_confidence(event,
                    [ocr_confidence |-> stage.context.ocr_confidence,
                     extraction_method |-> method])
            As(method) ==
                \A i \in DOMAIN out :
                    /\ extraction_method(out[i]) = method
                    /\ out[i].confidence = Scored(out[i], method)
        IN /\ (Len(det) = 1 /\ Len(llm) = 1 /\ MergedPair(det[1], llm[1]))
                  => As("hybrid")
           /\ (Len(det) = 1 /\ Len(llm) = 0) => As("deterministic")
           /\ (Len(det) = 0 /\ Len(llm) = 1) => As("llm")

\* The drafts of a list whose start, when present, parses.
Parsable(drafts) ==
    LET Good(event) == HasStart(event) => Parses(event.start[1])
    IN SelectSeq(drafts, Good)

\* C28: a draft whose start is present but does not parse is rejected alone:
\* the merge call returns, and what it returns is what it returns for the
\* other drafts.
C28_UnparsableStartRejectedAlone ==
    IsSet(stage.out) =>
        /\ ~stage.out[1].raised
        /\ stage.out[1] =
              merge_and_validate_events(Parsable(stage.deterministic_events),
                                        Parsable(stage.llm_events), stage.context)

\* C29: the sync job writes only to a calendar of the event's user: every
\* external event of a stored event lies in a calendar that the event's user
\* owns, also when approve named the calendar.
C29_WritesToOwnCalendar ==
    \A x \in gcal :
        Exists(x.id[1]) => calendars[x.calendar].user_id = events[x.id[1]].user_id

\* No external event is orphaned: every event in the provider's calendar is
\* the external event of a stored event, or was created by a sync job that is
\* still running and about to store its id.
NoOrphanedExternalEvents ==
    \A x \in gcal :
        \/ \E e \in DOMAIN events : events[e].external_event_id = Some(x.id)
        \/ \E w \in Workers : jobs[w].external_id = Some(x.id)

\* C30: no external event is orphaned in any reachable state; in particular a
\* step that removes the row of a synced event from a state without orphans
\* leaves a state without orphans.
C30_DeleteLeavesNoOrphan ==
    [][(/\ NoOrphanedExternalEvents
        /\ \E e \in DOMAIN events :
              events[e].status = SYNCED /\ e \notin DOMAIN events')
           => NoOrphanedExternalEvents']_vars
====
